---- MODULE Spec2Model ----
(***************************************************************************)
(* A model of talemate's OpenAI-compatible client adapter,                 *)
(* src/talemate/client/openai_compat.py (class OpenAICompatibleClient).    *)
(*                                                                         *)
(* Python values are modelled as follows.                                  *)
(*   - str: a TLA+ string; None is the string "None" where a str or None   *)
(*     is expected (model, api_key).  Prompts, whose characters matter,    *)
(*     are sequences of tokens (see prompt_template below).                *)
(*   - dict: a function whose DOMAIN is the set of keys present.           *)
(*   - float tuning values: integers (fixed point).                        *)
(*   - an AsyncOpenAI object: a record [id, base_url, api_key]; id is the  *)
(*     object's identity.                                                  *)
(***************************************************************************)
EXTENDS Integers, Sequences, FiniteSets, TLC

VARIABLES
    model_name,                     \* self.model_name
    api_key,                        \* self.api_key
    api_url,                        \* self.api_url
    max_token_length,               \* self.max_token_length
    api_handles_prompt_template,    \* self.api_handles_prompt_template
    client,                         \* self.client (the AsyncOpenAI handle)
    ncalls,                         \* number of reconfigure/set_client calls so far
    call,                           \* the last call on the configuration: [op, kwargs]
    op_args,                        \* the arguments of a call of a method under study
    op_result,                      \* what the call returned, or the dict it mutated
    op_state,                       \* "ready", "returned" or "raised"
    inv,                            \* the generate invocations, by name
    dicts                           \* the parameter dicts generate is given, by name

cfgvars == <<model_name, api_key, api_url, max_token_length,
             api_handles_prompt_template, client, ncalls, call>>

opvars == <<op_args, op_result, op_state>>

genvars == <<inv, dicts>>

vars == <<cfgvars, opvars, genvars>>

----------------------------------------------------------------------------
(* dict helpers *)

Has(d, k) == k \in DOMAIN d

\* d.get(k, default)
Get(d, k, default) == IF k \in DOMAIN d THEN d[k] ELSE default

\* d[k] = v
Put(d, k, v) == [x \in (DOMAIN d) \cup {k} |-> IF x = k THEN v ELSE d[x]]

\* del d[k]
Del(d, k) == [x \in (DOMAIN d) \ {k} |-> d[x]]

EmptyDict == [x \in {} |-> 0]

\* the union of two dicts with disjoint keys
Merge(d, e) == [x \in (DOMAIN d) \cup (DOMAIN e) |-> IF x \in DOMAIN d THEN d[x] ELSE e[x]]

\* Python truth value of a str-or-None
TruthyStr(s) == s # "None" /\ s # ""

\* Python truth value of an int
TruthyInt(n) == n # 0

----------------------------------------------------------------------------
(* Configuration: __init__, can_be_coerced, set_client, reconfigure *)

\* the fallback of reconfigure for a falsy max_token_length (line 155);
\* also Defaults.max_token_length (line 20)
DefaultMaxTokenLength == 8192

\* the adapter object's configuration fields, as a record
Self == [model_name |-> model_name, api_key |-> api_key, api_url |-> api_url,
         max_token_length |-> max_token_length,
         api_handles_prompt_template |-> api_handles_prompt_template,
         client |-> client]

\* AsyncOpenAI(base_url=url, api_key=key): a new object, identity id
AsyncOpenAI(id, url, key) == [id |-> id, base_url |-> url, api_key |-> key]

\* can_be_coerced, a bug variant: the flag itself is returned
CanBeCoercedOf_Flag(self) == self.api_handles_prompt_template

\* the can_be_coerced property of an adapter whose fields are self
CanBeCoercedOf(self) == ~ self.api_handles_prompt_template

can_be_coerced == CanBeCoercedOf(Self)

\* set_client(**kwargs) on an adapter whose fields are self; fresh is the
\* identity of the handle it creates
SetClientOn(self, kwargs, fresh) ==
    LET key  == Get(kwargs, "api_key", self.api_key)
        flag == Get(kwargs, "api_handles_prompt_template",
                    self.api_handles_prompt_template)
        url  == self.api_url
        name == IF TruthyStr(Get(kwargs, "model", "None"))
                  THEN kwargs["model"]
                  ELSE IF TruthyStr(Get(kwargs, "model_name", "None"))
                         THEN kwargs["model_name"]
                         ELSE self.model_name
    IN [self EXCEPT !.api_key = key,
                    !.api_handles_prompt_template = flag,
                    !.client = AsyncOpenAI(fresh, url, key),
                    !.model_name = name]

\* lines 153-156 of reconfigure, a bug variant: the value is stored without the
\* fallback for a falsy one
StoreMaxTokenLength_NoFallback(self, kwargs) ==
    IF Has(kwargs, "max_token_length")
      THEN [self EXCEPT !.max_token_length = kwargs["max_token_length"]]
      ELSE self

\* lines 153-156 of reconfigure.  int(v) is v on the integers the calls carry.
StoreMaxTokenLength(self, kwargs) ==
    IF Has(kwargs, "max_token_length")
      THEN [self EXCEPT !.max_token_length =
                 IF TruthyInt(kwargs["max_token_length"])
                   THEN kwargs["max_token_length"]
                   ELSE DefaultMaxTokenLength]
      ELSE self

\* lines 149-160 of reconfigure: the stores that precede set_client
ReconfigureFields(self, kwargs) ==
    LET s1 == IF TruthyStr(Get(kwargs, "model", "None"))
                THEN [self EXCEPT !.model_name = kwargs["model"]] ELSE self
        s2 == IF Has(kwargs, "api_url")
                THEN [s1 EXCEPT !.api_url = kwargs["api_url"]] ELSE s1
        s3 == StoreMaxTokenLength(s2, kwargs)
        s4 == IF Has(kwargs, "api_key")
                THEN [s3 EXCEPT !.api_key = kwargs["api_key"]] ELSE s3
        s5 == IF Has(kwargs, "api_handles_prompt_template")
                THEN [s4 EXCEPT !.api_handles_prompt_template =
                           kwargs["api_handles_prompt_template"]]
                ELSE s4
    IN s5

\* reconfigure, a bug variant: the fields are stored and the handle is kept
ReconfigureOn_KeepsHandle(self, kwargs, fresh) ==
    ReconfigureFields(self, kwargs)

\* reconfigure(**kwargs)
ReconfigureOn(self, kwargs, fresh) ==
    SetClientOn(ReconfigureFields(self, kwargs), kwargs, fresh)

\* the assignment of an adapter record to the state
Store(self) ==
    /\ model_name' = self.model_name
    /\ api_key' = self.api_key
    /\ api_url' = self.api_url
    /\ max_token_length' = self.max_token_length
    /\ api_handles_prompt_template' = self.api_handles_prompt_template
    /\ client' = self.client

----------------------------------------------------------------------------
(* The arguments the configuration calls are made with *)

MaxCalls == 2

\* one optional entry: absent, or present with one of the values
Opt(k, values) == {EmptyDict} \cup {[x \in {k} |-> v] : v \in values}

\* every combination of presence and value of the recognized keys
RecognizedKwargs ==
    { Merge(a, Merge(b, Merge(c, Merge(d, e)))) :
        a \in Opt("model", {"", "m2"}),
        b \in Opt("api_url", {"u2"}),
        c \in Opt("max_token_length", {0, 2048}),
        d \in Opt("api_key", {"k2"}),
        e \in Opt("api_handles_prompt_template", BOOLEAN) }

\* calls that carry a key outside the recognized set
ExtraKwargs ==
    { Merge(a, Merge(b, c)) :
        a \in Opt("model", {"", "m2"}),
        b \in Opt("model_name", {"", "m3"}),
        c \in Opt("foo", {"x"}) }

Kwargs == RecognizedKwargs \cup ExtraKwargs

----------------------------------------------------------------------------
(* Actions on the configuration *)

\* the state after construction: __init__ stores model, api_key and the flag,
\* the base class stores api_url and max_token_length and creates the handle
InitConfig ==
    /\ model_name \in {"None", "m1"}
    /\ api_key \in {"None", "k1"}
    /\ api_url = "u1"
    /\ max_token_length = DefaultMaxTokenLength
    /\ api_handles_prompt_template \in BOOLEAN
    /\ client = AsyncOpenAI(0, api_url, api_key)
    /\ ncalls = 0
    /\ call = [op |-> "init", kwargs |-> EmptyDict]

\* one adapter, as constructed
DefaultConfig ==
    InitConfig /\ model_name = "m1" /\ api_key = "k1" /\ ~ api_handles_prompt_template

\* no method under study is being called
NoOp == op_args = EmptyDict /\ op_result = EmptyDict /\ op_state = "none"

\* no generate invocation exists
NoGenerate == inv = EmptyDict /\ dicts = EmptyDict

Reconfigure(kwargs) ==
    /\ ncalls < MaxCalls
    /\ Store(ReconfigureOn(Self, kwargs, ncalls + 1))
    /\ ncalls' = ncalls + 1
    /\ call' = [op |-> "reconfigure", kwargs |-> kwargs]
    /\ UNCHANGED <<opvars, genvars>>

SetClient(kwargs) ==
    /\ ncalls < MaxCalls
    /\ Store(SetClientOn(Self, kwargs, ncalls + 1))
    /\ ncalls' = ncalls + 1
    /\ call' = [op |-> "set_client", kwargs |-> kwargs]
    /\ UNCHANGED <<opvars, genvars>>

NextConfig ==
    \/ \E kwargs \in Kwargs : Reconfigure(kwargs)
    \/ \E kwargs \in Kwargs : SetClient(kwargs)

\* the states the specification starts in
InitSpecConfig == InitConfig /\ NoOp /\ NoGenerate

SpecConfig == InitSpecConfig /\ [][NextConfig]_vars

----------------------------------------------------------------------------
(* Claims about the configuration *)

\* a step that is a call of reconfigure; call' holds its arguments
ReconfigureStep == ncalls' = ncalls + 1 /\ call'.op = "reconfigure"

\* C5: in every state reached by construction and any sequence of reconfigure
\* and set_client calls, can_be_coerced is the negation of the stored
\* api_handles_prompt_template flag.
C5_CoercionNegatesFlag ==
    /\ api_handles_prompt_template \in BOOLEAN
    /\ can_be_coerced = (api_handles_prompt_template = FALSE)

\* C5's case: a second call, a reconfigure carrying the flag, has set the flag
\* that construction left false, and coercion is off
C5_Witness ==
    /\ ncalls = 2
    /\ call.op = "reconfigure"
    /\ Has(call.kwargs, "api_handles_prompt_template")
    /\ api_handles_prompt_template
    /\ ~ can_be_coerced

\* C6 as stated: every recognized key present in a reconfigure call is stored
\* as supplied, whatever its value; every field whose key is absent is
\* unchanged, so that a key outside the recognized set changes no field.
C6_AsStated ==
    [][ReconfigureStep =>
         LET kw == call'.kwargs IN
         /\ model_name' = Get(kw, "model", model_name)
         /\ api_url' = Get(kw, "api_url", api_url)
         /\ max_token_length' = Get(kw, "max_token_length", max_token_length)
         /\ api_key' = Get(kw, "api_key", api_key)
         /\ api_handles_prompt_template' =
                Get(kw, "api_handles_prompt_template", api_handles_prompt_template)
       ]_vars

\* C6, amended: api_url, api_key and api_handles_prompt_template are stored as
\* supplied when present and unchanged when absent; max_token_length, when
\* present, is stored as supplied if it is truthy and as 8192 if it is falsy,
\* and is unchanged when absent; the model name becomes the model argument if
\* that is truthy, else the model_name argument if that is truthy, else it is
\* unchanged; no other key changes a configuration field.
C6_PartialUpdate ==
    [][ReconfigureStep =>
         LET kw == call'.kwargs IN
         /\ model_name' =
               IF Has(kw, "model") /\ kw["model"] \notin {"", "None"}
                 THEN kw["model"]
                 ELSE IF Has(kw, "model_name") /\ kw["model_name"] \notin {"", "None"}
                        THEN kw["model_name"]
                        ELSE model_name
         /\ api_url' = Get(kw, "api_url", api_url)
         /\ max_token_length' =
               IF Has(kw, "max_token_length")
                 THEN IF kw["max_token_length"] = 0 THEN 8192
                                                   ELSE kw["max_token_length"]
                 ELSE max_token_length
         /\ api_key' = Get(kw, "api_key", api_key)
         /\ api_handles_prompt_template' =
                Get(kw, "api_handles_prompt_template", api_handles_prompt_template)
       ]_vars

\* C6's case: a reconfigure carrying a falsy max_token_length together with
\* other recognized keys has run
C6_Witness ==
    /\ call.op = "reconfigure"
    /\ Has(call.kwargs, "max_token_length")
    /\ call.kwargs["max_token_length"] = 0
    /\ Has(call.kwargs, "api_url")
    /\ Has(call.kwargs, "model")
    /\ max_token_length = 8192
    /\ api_url = "u2"

\* C7: every reconfigure call leaves a newly created handle, distinct from
\* the one held before the call, bound to the api_url and api_key stored after
\* the call.
C7_FreshBoundHandle ==
    [][ReconfigureStep =>
         /\ client'.id # client.id
         /\ client'.base_url = api_url'
         /\ client'.api_key = api_key'
       ]_vars

\* C7's case: a second reconfigure, carrying a new URL and key, has replaced
\* the handle of the first
C7_Witness ==
    /\ ncalls = 2
    /\ call.op = "reconfigure"
    /\ Has(call.kwargs, "api_url")
    /\ Has(call.kwargs, "api_key")
    /\ client = AsyncOpenAI(2, "u2", "k2")

----------------------------------------------------------------------------
(* tune_prompt_parameters *)

\* the keys and values of the tuning-parameter mappings the method is given
TuneKeys == {"max_tokens", "presence_penalty", "top_p", "temperature",
             "repetition_penalty", "frequency_penalty"}

TuneValues == {700, 1100}

\* keys the shared tuning step may add
BaseKeys == TuneKeys \cup {"stream"}

Kinds == {"conversation", "narrate"}

\* every dict with keys in K and values in V
Dicts(K, V) == UNION { [D -> V] : D \in SUBSET K }

\* super().tune_prompt_parameters(parameters, kind): the shared tuning step of
\* the base class.  It mutates the mapping; it may add entries and leaves the
\* entries it is given as they are.  The set of mappings it can leave.
BaseTunePromptParameters(parameters, kind) ==
    { Merge(parameters, e) : e \in Dicts(BaseKeys \ DOMAIN parameters, {700}) }

\* the rename, a bug variant: an existing presence_penalty is kept
RenameRepetitionPenalty_KeepsExisting(parameters) ==
    IF Has(parameters, "repetition_penalty")
      THEN IF Has(parameters, "presence_penalty")
             THEN Del(parameters, "repetition_penalty")
             ELSE Put(Del(parameters, "repetition_penalty"), "presence_penalty",
                      parameters["repetition_penalty"])
      ELSE parameters

\* lines 86-89: parameters["presence_penalty"] = parameters.pop("repetition_penalty")
RenameRepetitionPenalty(parameters) ==
    IF Has(parameters, "repetition_penalty")
      THEN Put(Del(parameters, "repetition_penalty"), "presence_penalty",
               parameters["repetition_penalty"])
      ELSE parameters

\* the allow-list, a bug variant: frequency_penalty is let through
allowed_params_WithFrequency ==
    {"max_tokens", "presence_penalty", "top_p", "temperature", "frequency_penalty"}

\* line 91
allowed_params == {"max_tokens", "presence_penalty", "top_p", "temperature"}

\* lines 94-96: the loop over list(parameters.keys()), keys being those still
\* to visit
RECURSIVE DropUnsupported(_, _)
DropUnsupported(parameters, keys) ==
    IF keys = {} THEN parameters
    ELSE LET param == CHOOSE k \in keys : TRUE
         IN DropUnsupported(IF param \notin allowed_params
                              THEN Del(parameters, param) ELSE parameters,
                            keys \ {param})

\* lines 86-96: what the method does after the shared step
TuneOwn(parameters) ==
    LET renamed == RenameRepetitionPenalty(parameters)
    IN DropUnsupported(renamed, DOMAIN renamed)

InitTune ==
    /\ op_args \in [parameters : Dicts(TuneKeys, TuneValues), kind : Kinds]
    /\ op_result = [after_base |-> op_args.parameters,
                    parameters |-> op_args.parameters]
    /\ op_state = "ready"

\* op_result.parameters is the mapping, mutated in place; op_result.after_base
\* records what it held when the shared step returned
TunePromptParameters ==
    /\ op_state = "ready"
    /\ \E based \in BaseTunePromptParameters(op_args.parameters, op_args.kind) :
          op_result' = [after_base |-> based, parameters |-> TuneOwn(based)]
    /\ op_state' = "returned"
    /\ UNCHANGED <<op_args, cfgvars, genvars>>

NextTune == TunePromptParameters

\* the states the specification starts in
InitSpecTune == DefaultConfig /\ InitTune /\ NoGenerate

SpecTune == InitSpecTune /\ [][NextTune]_vars

C4_RenameRepetitionPenalty ==
    (op_state = "returned" /\ "repetition_penalty" \in DOMAIN op_args.parameters) =>
      /\ "presence_penalty" \in DOMAIN op_result.parameters
      /\ op_result.parameters["presence_penalty"] =
            op_args.parameters["repetition_penalty"]
      /\ "repetition_penalty" \notin DOMAIN op_result.parameters

\* C4's case: the given mapping held both penalties with different values
C4_Witness ==
    /\ op_state = "returned"
    /\ {"repetition_penalty", "presence_penalty"} \subseteq DOMAIN op_args.parameters
    /\ op_args.parameters["repetition_penalty"] = 1100
    /\ op_args.parameters["presence_penalty"] = 700
    /\ op_result.parameters["presence_penalty"] = 1100

----------------------------------------------------------------------------
(* prompt_template *)

(* A prompt is a sequence of tokens: BOT stands for one occurrence of the    *)
(* marker "<|BOT|>", any other token for a character outside every marker.   *)
(* The marker cannot overlap itself, so str.split and str.replace see the    *)
(* occurrences this tokenization shows.                                      *)
BOT == "<|BOT|>"

Cue == "\nStart your response with: "

MaxPromptLen == 4

PromptTokens == {"x", "y", BOT}

Prompts == UNION { [1..n -> PromptTokens] : n \in 0..MaxPromptLen }

\* old in text
Contains(text, old) == \E i \in 1..Len(text) : text[i] = old

\* text.split(sep, 1), for a text that contains sep: [left, right]
SplitOnce(text, sep) ==
    LET i == CHOOSE j \in 1..Len(text) :
                 text[j] = sep /\ \A h \in 1..(j - 1) : text[h] # sep
    IN <<SubSeq(text, 1, i - 1), SubSeq(text, i + 1, Len(text))>>

\* text.replace(old, new): every occurrence of old replaced; new is a sequence
RECURSIVE Replace(_, _, _)
Replace(text, old, new) ==
    IF text = <<>> THEN <<>>
    ELSE (IF Head(text) = old THEN new ELSE <<Head(text)>>)
           \o Replace(Tail(text), old, new)

\* super().prompt_template(system_message, prompt): the shared templating of
\* the base class, an opaque wrapping of its two arguments
BasePromptTemplate(system_message, prompt) ==
    <<"<template>", system_message>> \o prompt

\* prompt_template(system_message, prompt) on an adapter whose fields are self
PromptTemplateOn(self, system_message, prompt) ==
    IF ~ self.api_handles_prompt_template
      THEN BasePromptTemplate(system_message, prompt)
      ELSE IF Contains(prompt, BOT)
             THEN LET right == SplitOnce(prompt, BOT)[2]
                  IN IF right # <<>>
                       THEN Replace(prompt, BOT, <<Cue>>)
                       ELSE Replace(prompt, BOT, <<>>)
             ELSE prompt

InitTemplate ==
    /\ op_args \in [system_message : {"sys"}, prompt : Prompts]
    /\ op_result = <<>>
    /\ op_state = "ready"

PromptTemplate ==
    /\ op_state = "ready"
    /\ op_result' = PromptTemplateOn(Self, op_args.system_message, op_args.prompt)
    /\ op_state' = "returned"
    /\ UNCHANGED <<op_args, cfgvars, genvars>>

NextTemplate == PromptTemplate

\* the states the specification starts in
InitSpecTemplate == InitConfig /\ InitTemplate /\ NoGenerate

SpecTemplate == InitSpecTemplate /\ [][NextTemplate]_vars

\* C8: with api_handles_prompt_template true, a prompt without the marker is
\* returned unchanged; a prompt with the marker is split at the marker's first
\* occurrence, and the result is the text before, the cue and the text after
\* when the text after is non-empty, and the text before when it is empty; the
\* text before and after the first marker is left as it is, also when the
\* prompt holds several markers.
C8_SplitAtFirstMarker ==
    (op_state = "returned" /\ api_handles_prompt_template) =>
      LET prompt == op_args.prompt IN
      IF \A i \in 1..Len(prompt) : prompt[i] # BOT
        THEN op_result = prompt
        ELSE LET first  == CHOOSE i \in 1..Len(prompt) :
                              prompt[i] = BOT /\ \A h \in 1..(i - 1) : prompt[h] # BOT
                 before == SubSeq(prompt, 1, first - 1)
                 after  == SubSeq(prompt, first + 1, Len(prompt))
             IN IF after # <<>>
                  THEN op_result = before \o <<Cue>> \o after
                  ELSE op_result = before

----------------------------------------------------------------------------
(* jiggle_randomness *)

(* Tuning values and offsets are integers in units of 0.00001, so that the   *)
(* products by 0.3 of the offsets used are exact.                            *)

\* random.random() is drawn as k / RandomSteps, k in 0..RandomSteps
RandomSteps == 7

JiggleKeys == {"temperature", "frequency_penalty", "repetition_penalty", "top_p"}

JiggleValues == {20000, 70000}

Offsets == {-10000, 0, 10000, 30000}

\* x * 0.3
TimesThreeTenths(x) == (x * 3) \div 10

\* random.uniform(a, b) = a + (b - a) * random.random(), for the draw k
Uniform(a, b, k) == a + ((b - a) * k) \div RandomSteps

\* the choice of key, a bug variant: repetition_penalty is preferred
RepPenKey_PrefersRepetition(prompt_config) ==
    IF Has(prompt_config, "repetition_penalty")
      THEN "repetition_penalty" ELSE "frequency_penalty"

\* lines 174-177
RepPenKey(prompt_config) ==
    IF Has(prompt_config, "frequency_penalty")
      THEN "frequency_penalty" ELSE "repetition_penalty"

\* the statements at lines 172 and 179 raise KeyError on a missing key
JiggleRaises(prompt_config) ==
    \/ ~ Has(prompt_config, "temperature")
    \/ ~ Has(prompt_config, RepPenKey(prompt_config))

\* lines 172-186, for the draws k1 and k2: the mapping as it is left
JiggleRandomnessOn(prompt_config, offset, k1, k2) ==
    LET temp        == prompt_config["temperature"]
        rep_pen_key == RepPenKey(prompt_config)
        rep_pen     == prompt_config[rep_pen_key]
        min_offset  == TimesThreeTenths(offset)
        jiggled     == Put(prompt_config, "temperature",
                           Uniform(temp + min_offset, temp + offset, k1))
    IN Put(jiggled, rep_pen_key,
           Uniform(rep_pen + TimesThreeTenths(min_offset),
                   rep_pen + TimesThreeTenths(offset), k2))

InitJiggle ==
    /\ op_args \in [prompt_config : Dicts(JiggleKeys, JiggleValues), offset : Offsets]
    /\ op_result = op_args.prompt_config
    /\ op_state = "ready"

\* op_result is the mapping, mutated in place
JiggleRandomness ==
    /\ op_state = "ready"
    /\ IF JiggleRaises(op_args.prompt_config)
         THEN op_state' = "raised" /\ op_result' = op_result
         ELSE /\ op_state' = "returned"
              /\ \E k1, k2 \in 0..RandomSteps :
                   op_result' = JiggleRandomnessOn(op_args.prompt_config,
                                                   op_args.offset, k1, k2)
    /\ UNCHANGED <<op_args, cfgvars, genvars>>

NextJiggle == JiggleRandomness

\* the states the specification starts in
InitSpecJiggle == DefaultConfig /\ InitJiggle /\ NoGenerate

SpecJiggle == InitSpecJiggle /\ [][NextJiggle]_vars

----------------------------------------------------------------------------
(* generate *)

(* generate is a coroutine function.  Calling it binds the arguments and     *)
(* runs nothing (Issue); the body runs, when the event loop first schedules  *)
(* it, from line 124 up to the await at line 131 without giving up control   *)
(* (GenerateStart), and from the completion of the awaited call to a return  *)
(* (GenerateResume).  Calls of reconfigure run between these steps.          *)

Invocations == {"g1", "g2"}

DictNames == {"p", "q"}

\* a prompt is a sequence of characters, " " being whitespace
GenPrompts == {<<" ", "a">>, <<"b", " ">>}

\* the parameter dicts the invocations are given; one holds a model entry
GenDicts == {[x \in {"temperature"} |-> 700],
             [x \in {"temperature", "model"} |-> IF x = "model" THEN "m9" ELSE 700]}

\* the reconfigure calls made while invocations are under way
GenKwargs == {[x \in {"model"} |-> "m2"],
              [x \in {"api_url", "api_key"} |-> IF x = "api_url" THEN "u2" ELSE "k2"]}

\* the exceptions the awaited completion call raises
RemoteErrors == {"PermissionDeniedError", "NotFoundError", "APIConnectionError"}

\* what the awaited completion call does: it raises cls, or (cls = "none")
\* returns a response with these choices' texts
Outcomes ==
    [cls : {"none"}, choices : {<<>>, <<"t1">>, <<"t2", "t1">>}]
      \cup [cls : RemoteErrors, choices : {<<>>}]

NoOutcome == [cls |-> "pending", choices |-> <<>>]

NoRequest == [model |-> "None", client |-> AsyncOpenAI(-1, "None", "None"),
              kwargs |-> EmptyDict]

NotReturned == "<not returned>"

\* str.strip(): leading and trailing whitespace removed
RECURSIVE LStrip(_)
LStrip(text) ==
    IF text # <<>> /\ Head(text) = " " THEN LStrip(Tail(text)) ELSE text

RECURSIVE RStrip(_)
RStrip(text) ==
    IF text # <<>> /\ text[Len(text)] = " "
      THEN RStrip(SubSeq(text, 1, Len(text) - 1)) ELSE text

Strip(text) == LStrip(RStrip(text))

\* line 124: built and not used further
HumanMessage(prompt) == [role |-> "user", content |-> Strip(prompt)]

\* line 128, a bug variant: the trimmed prompt is stored
PromptEntry_Stripped(prompt) == Strip(prompt)

\* line 128: the value stored under "prompt"
PromptEntry(prompt) == prompt

\* isinstance(exc, cls) for the exceptions of the model, all of which derive
\* from Exception
IsInstance(exc, cls) == cls = exc \/ cls = "Exception"

\* the except clauses, bug variants: the generic clause first; and a clause for
\* NotFoundError in place of the clause for Exception
ExceptClauses_GenericFirst ==
    << [cls |-> "Exception", message |-> "Error during generation (check logs)"],
       [cls |-> "PermissionDeniedError", message |-> "Client API: Permission Denied"] >>

ExceptClauses_NotFoundOnly ==
    << [cls |-> "PermissionDeniedError", message |-> "Client API: Permission Denied"],
       [cls |-> "NotFoundError", message |-> "Error during generation (check logs)"] >>

\* lines 137-146: the except clauses in order, each with the message it emits
ExceptClauses ==
    << [cls |-> "PermissionDeniedError", message |-> "Client API: Permission Denied"],
       [cls |-> "Exception", message |-> "Error during generation (check logs)"] >>

\* lines 137-146: how an invocation g ends when exc is raised inside the try.
\* The first clause that matches emits its message and returns ""; with no
\* matching clause the exception leaves generate.
Handle(g, exc) ==
    LET matching == {n \in 1..Len(ExceptClauses) : IsInstance(exc, ExceptClauses[n].cls)}
    IN IF matching = {}
         THEN [g EXCEPT !.pc = "done", !.failure = exc, !.propagated = exc]
         ELSE LET clause == ExceptClauses[CHOOSE n \in matching :
                                             \A m \in matching : n <= m]
              IN [g EXCEPT !.pc = "done", !.failure = exc, !.result = "",
                           !.emitted = Append(@, [channel |-> "status",
                                                  message |-> clause.message,
                                                  status  |-> "error"])]

\* line 131: model=self.model_name, **parameters is a TypeError when the
\* mapping holds "model" (the keyword is given twice)
CallRaises(kwargs) == Has(kwargs, "model")

InitGenerate ==
    /\ inv = [i \in Invocations |->
                [pc |-> "idle", prompt |-> <<>>, parameters |-> "p",
                 issued_with |-> [model_name |-> "None", client |-> NoRequest.client],
                 started_with |-> [model_name |-> "None", client |-> NoRequest.client],
                 request |-> NoRequest, response |-> NoOutcome,
                 failure |-> "none", propagated |-> "none",
                 result |-> NotReturned, emitted |-> <<>>]]
    /\ dicts \in [DictNames -> GenDicts]

\* generate(prompt, parameters, kind) is called: the coroutine is created
Issue(i, prompt, d) ==
    /\ inv[i].pc = "idle"
    /\ inv' = [inv EXCEPT ![i].pc = "issued", ![i].prompt = prompt,
                          ![i].parameters = d,
                          ![i].issued_with = [model_name |-> model_name,
                                              client |-> client]]
    /\ UNCHANGED <<dicts, cfgvars, opvars>>

\* lines 124-133, up to the await
GenerateStart(i) ==
    /\ inv[i].pc = "issued"
    /\ LET d          == inv[i].parameters
           parameters == Put(dicts[d], "prompt", PromptEntry(inv[i].prompt))
           started    == [inv[i] EXCEPT !.started_with =
                             [model_name |-> model_name, client |-> client]]
       IN /\ dicts' = [dicts EXCEPT ![d] = parameters]
          /\ IF CallRaises(parameters)
               THEN inv' = [inv EXCEPT ![i] = Handle(started, "TypeError")]
               ELSE inv' = [inv EXCEPT ![i] =
                              [started EXCEPT !.pc = "awaiting",
                                              !.request = [model |-> model_name,
                                                           client |-> client,
                                                           kwargs |-> parameters]]]
    /\ UNCHANGED <<cfgvars, opvars>>

\* lines 131-146, from the completion of the awaited call
GenerateResume(i, outcome) ==
    /\ inv[i].pc = "awaiting"
    /\ LET answered == [inv[i] EXCEPT !.response = outcome]
       IN inv' = [inv EXCEPT ![i] =
                    IF outcome.cls # "none"
                      THEN Handle(answered, outcome.cls)
                      ELSE IF outcome.choices = <<>>
                             THEN Handle(answered, "IndexError")
                             ELSE [answered EXCEPT !.pc = "done",
                                                   !.result = outcome.choices[1]]]
    /\ UNCHANGED <<dicts, cfgvars, opvars>>

NextGenerate ==
    \/ \E i \in Invocations, prompt \in GenPrompts, d \in DictNames : Issue(i, prompt, d)
    \/ \E i \in Invocations : GenerateStart(i)
    \/ \E i \in Invocations, outcome \in Outcomes : GenerateResume(i, outcome)
    \/ \E kwargs \in GenKwargs : Reconfigure(kwargs)

\* the states the specification starts in
InitSpecGenerate == DefaultConfig /\ NoOp /\ InitGenerate

SpecGenerate == InitSpecGenerate /\ [][NextGenerate]_vars

----------------------------------------------------------------------------
(* Claims about generate *)

PermissionDeniedStatus ==
    [channel |-> "status", message |-> "Client API: Permission Denied",
     status |-> "error"]

GenericErrorStatus ==
    [channel |-> "status", message |-> "Error during generation (check logs)",
     status |-> "error"]

\* C1: whichever way the completion call fails (permission denied, not found,
\* another error, a response without choices, a mapping the call rejects), no
\* exception leaves generate: the invocation ends by returning "".
C1_NoExceptionEscapes ==
    \A i \in Invocations :
      /\ inv[i].propagated = "none"
      /\ (inv[i].pc = "done" /\ inv[i].failure # "none") => inv[i].result = ""

\* C1's case: one invocation was rejected at the call, the other got a
\* response without choices, and both have returned ""
C1_Witness ==
    /\ inv["g1"].pc = "done" /\ inv["g1"].failure = "TypeError"
    /\ inv["g1"].result = ""
    /\ inv["g2"].pc = "done" /\ inv["g2"].failure = "IndexError"
    /\ inv["g2"].response.cls = "none"
    /\ inv["g2"].result = ""

\* C2: an invocation that fails emits exactly one error status, the fixed
\* permission-denied message for a permission-denied failure and the generic
\* message for every other failure, not-found included; an invocation that
\* succeeds emits none.
C2_OneStatusPerFailure ==
    \A i \in Invocations :
      /\ inv[i].pc # "done" => inv[i].emitted = <<>>
      /\ inv[i].pc = "done" =>
           inv[i].emitted =
             IF inv[i].failure = "none" THEN <<>>
             ELSE IF inv[i].failure = "PermissionDeniedError"
                    THEN <<PermissionDeniedStatus>>
                    ELSE <<GenericErrorStatus>>

\* C2's case: one invocation failed with permission denied, the other with
\* not found
C2_Witness ==
    /\ inv["g1"].pc = "done" /\ inv["g1"].response.cls = "PermissionDeniedError"
    /\ Len(inv["g1"].emitted) = 1
    /\ inv["g2"].pc = "done" /\ inv["g2"].response.cls = "NotFoundError"
    /\ inv["g2"].emitted = <<GenericErrorStatus>>

\* what an invocation that is done has to have returned
ExpectedResult(g) ==
    IF g.failure = "none" THEN g.response.choices[1] ELSE ""

\* C10 as stated: under every interleaving, the request of an invocation
\* carries its own untrimmed prompt under "prompt" with the model name and
\* the handle configured when it was issued, and the invocation returns the
\* first choice's text of its own response, or "" if it failed.
C10_AsStated ==
    \A i \in Invocations :
      /\ inv[i].request # NoRequest =>
           /\ inv[i].request.kwargs["prompt"] = inv[i].prompt
           /\ inv[i].request.model = inv[i].issued_with.model_name
           /\ inv[i].request.client = inv[i].issued_with.client
      /\ inv[i].pc = "done" => inv[i].result = ExpectedResult(inv[i])

\* C10, amended: the request carries the invocation's own untrimmed prompt
\* under "prompt" with the model name and the handle configured when its body
\* starts to run, which for an invocation issued as a task is later than the
\* moment it was issued; the invocation returns the first choice's text of its
\* own response, or "" if it failed; and no step taken while it awaits, a
\* reconfigure or a step of another invocation, changes its request, nor any
\* later step its result.
C10_Independent ==
    /\ [](\A i \in Invocations :
            /\ inv[i].request # NoRequest =>
                 /\ inv[i].request.kwargs["prompt"] = inv[i].prompt
                 /\ inv[i].request.model = inv[i].started_with.model_name
                 /\ inv[i].request.client = inv[i].started_with.client
            /\ inv[i].pc = "done" => inv[i].result = ExpectedResult(inv[i]))
    /\ [][\A i \in Invocations :
            /\ inv[i].pc \in {"awaiting", "done"} =>
                 /\ inv'[i].request = inv[i].request
                 /\ inv'[i].prompt = inv[i].prompt
            /\ inv[i].pc = "done" => inv'[i] = inv[i]
         ]_vars

\* C10's case: g1 and g2 share the dict p; while g1 awaited, a reconfigure
\* changed the model and g2 stored its prompt in p; g1 has returned the first
\* choice of its response, its request unchanged
C10_Witness ==
    /\ inv["g1"].parameters = "p" /\ inv["g2"].parameters = "p"
    /\ inv["g1"].pc = "done" /\ inv["g2"].pc = "awaiting"
    /\ inv["g1"].prompt # inv["g2"].prompt
    /\ dicts["p"]["prompt"] = inv["g2"].prompt
    /\ inv["g1"].request.kwargs["prompt"] = inv["g1"].prompt
    /\ inv["g1"].request.model = "m1" /\ inv["g2"].request.model = "m2"
    /\ inv["g1"].issued_with.model_name = "m1"
    /\ inv["g1"].response.choices = <<"t2", "t1">>
    /\ inv["g1"].result = "t2"

====
